---- MODULE Spec2Model ----
(***************************************************************************)
(* The orchestrator of an Iroha node (iroha/src/lib.rs) and its ingress    *)
(* Torii (iroha/src/torii.rs) as a state machine.                          *)
(*                                                                         *)
(* Tasks: one task per accepted request (handle_connection spawns          *)
(* handle_request), and the four loops spawned by Iroha::start:            *)
(* transaction intake, round driver, block applier, peer message handler.  *)
(* Shared state: the three unbounded channels, the Queue, Sumeragi, Kura,   *)
(* the WorldStateView, last_round_time, and the futures::lock::Mutex that   *)
(* guards each of them.                                                    *)
(*                                                                         *)
(* Queue, Sumeragi, Kura, WorldStateView and Transaction::accept are used  *)
(* by the two source files but defined elsewhere; their operators below    *)
(* are written from the specification's sections 4.2 to 4.5.               *)
(*                                                                         *)
(* A critical section that contains no suspension point (lock, one         *)
(* synchronous call, guard dropped at the end of the statement) is one     *)
(* action.  A guard that lives across an .await is visible in `lock`, and  *)
(* so is the Sumeragi guard of the driver's has_pending_block check, which *)
(* the driver takes on every turn of its loop.                             *)
(***************************************************************************)
EXTENDS Integers, Sequences, FiniteSets, TLC

\* ------------------------------------------------------------------ bounds
\* Number of requests Torii accepts in a run.
MaxRequests == 2
\* Number of blocks already in the block store when the node starts.
MaxStored == 1
\* Number of transactions in a block that comes from the store or a peer.
MaxBlockTx == 2

\* --------------------------------------------------------------- constants
Requests == 1..MaxRequests

None == <<"none">>
Listener == <<"listener">>
Intake == <<"intake">>
Driver == <<"driver">>
Applier == <<"applier">>
Handler == <<"handler">>
RequestTask(r) == <<"request", r>>

\* torii.rs `pub mod uri`; "/other" stands for every URI that is none of them.
QUERY_URI == "/query"
INSTRUCTIONS_URI == "/instruction"
BLOCKS_URI == "/block"
OTHER_URI == "/other"
KnownUris == {INSTRUCTIONS_URI, QUERY_URI, BLOCKS_URI}

\* The mutexes of struct Iroha, struct Torii and ToriiState.
ComponentMutexes == {"torii", "queue", "sumeragi", "kura", "world_state_view"}
Mutexes ==
  ComponentMutexes \cup
    {"state", "transaction_sender", "message_sender", "transactions_receiver",
     "blocks_receiver", "message_receiver", "last_round_time"}

Roles == {"Leader", "ValidatingPeer", "ProxyTail", "ObservingPeer"}
MessageKinds == {"Created", "Signed", "Committed"}

\* What a request carries.  "garbage" does not decode.  For /instruction,
\* "good" is a transaction that passes accept() and "bad" one that decodes
\* and fails it; for /query, "good" is a query that executes and "bad" one
\* whose execution returns Err; for /block the payload is the Message.
Payloads(u) ==
  CASE u = INSTRUCTIONS_URI -> {"garbage", "good", "bad"}
    [] u = QUERY_URI -> {"garbage", "good", "bad"}
    [] u = BLOCKS_URI -> {"garbage"} \cup MessageKinds
    [] OTHER -> {"garbage"}

VARIABLES
  deployment,      \* "node": Iroha::new + start; "torii": Torii::new alone
  peers,           \* "solo": config.trusted_peers = None; "network": Some
  nreq,            \* requests accepted so far
  req,             \* req[r]: [uri, payload] of request r
  rpc,             \* rpc[r]: where request r's task is
  resp,            \* resp[r]: the response written for request r
  transactions,    \* the transaction channel
  messages,        \* the message channel
  blocks,          \* the block channel
  queue,           \* Queue.pending_tx
  lock,            \* lock[m]: the task that holds mutex m
  role,            \* Sumeragi: this peer's role in the current round
  pending_block,   \* Sumeragi: has_pending_block()
  height,          \* Kura: number of blocks stored
  world_state_view,\* WSV: [blocks, txs] applied so far
  last_round_time, \* number of times the round driver stamped it
  ipc, itx,        \* transaction intake: position, transaction in hand
  dpc, batch, didx, \* round driver: position, drained batch, sends started
  apc, ablock, aidx, \* block applier: position, block in hand, txs applied
  hpc, hmsg,       \* peer message handler: position, message in hand
  shutdown,        \* the channel senders have been closed
  view,            \* Sumeragi: view changes triggered so far
  log              \* history: what each task did, in order

vars ==
  <<deployment, peers, nreq, req, rpc, resp, transactions, messages, blocks,
    queue, lock, role, pending_block, height, world_state_view,
    last_round_time, ipc, itx, dpc, batch, didx, apc, ablock, aidx, hpc, hmsg,
    shutdown, view, log>>

toriiVars == <<nreq, req, rpc, resp>>
intakeVars == <<ipc, itx>>
driverVars == <<dpc, batch, didx>>
applierVars == <<apc, ablock, aidx>>
handlerVars == <<hpc, hmsg>>
sumeragiVars == <<role, pending_block>>
configVars == <<deployment, peers>>
haltVars == <<shutdown, view>>

\* ------------------------------------------------------------- primitives
\* futures::lock::Mutex::lock().await completes when the mutex is free.
Free(m) == lock[m] = None

Acquire(l, m, t) == [l EXCEPT ![m] = t]

\* Dropping every guard a task holds (end of scope, or unwinding of a panic).
ReleaseAll(l, t) == [m \in Mutexes |-> IF l[m] = t THEN None ELSE l[m]]

Release(l, m) == [l EXCEPT ![m] = None]

Held(t) == {m \in Mutexes : lock[m] = t}

\* A receiver that hands out the newest buffered item.
Next_item_newest(ch) == ch[Len(ch)]

\* mpsc::UnboundedReceiver::next(): the oldest buffered item.
Next_item(ch) == Head(ch)

\* mpsc::UnboundedSender::start_send: Err when the receiver is gone.
ReceiverAlive == deployment = "node"

Block(h, n) == [height |-> h, ntx |-> n]

\* Kura::init replays the stored blocks on the block channel in order.
Replay(n) == [i \in 1..n |-> Block(i - 1, MaxBlockTx)]

EmptyLog ==
  [sent |-> <<>>, queued |-> <<>>, emitted |-> <<>>, put |-> <<>>,
   proposed |-> <<>>, forwarded |-> <<>>, handled |-> <<>>, observed |-> <<>>,
   pushed |-> <<>>, replayed |-> 0]

\* ------------------------------------------------------------------- Init
\* Iroha::new followed by Iroha::start: Kura::init has replayed the store
\* onto the block channel, the listener holds the Torii mutex for good, and
\* each loop holds the guard of its receiver (a `while let` scrutinee keeps
\* its temporaries through the body).  Or Torii::new alone, the way
\* torii.rs's own test builds it: both receivers are dropped at once.
InitLock ==
  [m \in Mutexes |->
     CASE m = "torii" -> Listener
       [] m = "transactions_receiver" -> Intake
       [] m = "blocks_receiver" -> Applier
       [] m = "message_receiver" -> Handler
       [] OTHER -> None]

InitCommon ==
  /\ nreq = 0
  /\ req = [r \in Requests |-> [uri |-> OTHER_URI, payload |-> "garbage"]]
  /\ rpc = [r \in Requests |-> "idle"]
  /\ resp = [r \in Requests |-> "none"]
  /\ transactions = <<>>
  /\ messages = <<>>
  /\ queue = <<>>
  /\ pending_block = FALSE
  /\ world_state_view = [blocks |-> 0, txs |-> 0]
  /\ last_round_time = 0
  /\ ipc = "next" /\ itx = 0
  /\ dpc = "check" /\ batch = <<>> /\ didx = 0
  /\ apc = "next" /\ ablock = Block(0, 0) /\ aidx = 0
  /\ hpc = "next" /\ hmsg = [id |-> 0, kind |-> "Created"]
  /\ shutdown = FALSE
  /\ view = 0

InitNode ==
  /\ deployment = "node"
  /\ peers \in {"solo", "network"}
  /\ role \in (IF peers = "solo" THEN {"Leader"} ELSE Roles)
  /\ height \in 0..MaxStored
  /\ blocks = Replay(height)
  /\ log = [EmptyLog EXCEPT !.emitted = Replay(height), !.replayed = height]
  /\ lock = InitLock

InitTorii ==
  /\ deployment = "torii"
  /\ peers = "solo"
  /\ role = "Leader"
  /\ height = 0
  /\ blocks = <<>>
  /\ log = EmptyLog
  /\ lock = [m \in Mutexes |-> None]

Init == InitCommon /\ (InitNode \/ InitTorii)

\* ------------------------------------------------------------------ Torii
\* handle_connection: under the ToriiState guard, spawn the request's task.
Connect(r) ==
  /\ r = nreq + 1
  /\ r <= MaxRequests
  /\ ~shutdown
  /\ Free("state")
  /\ \E u \in KnownUris \cup {OTHER_URI} : \E p \in Payloads(u) :
       req' = [req EXCEPT ![r] = [uri |-> u, payload |-> p]]
  /\ nreq' = r
  /\ rpc' = [rpc EXCEPT ![r] = "request"]
  /\ UNCHANGED <<configVars, haltVars, resp, transactions, messages, blocks, queue, lock,
                 sumeragiVars, height, world_state_view, last_round_time,
                 intakeVars, driverVars, applierVars, handlerVars, log>>

\* A decode failure answered like a success.
DecodeFailureResponse_ok == "EmptyOk"

\* What handle_request answers when try_from fails.
DecodeFailureResponse == "InternalError"

\* An unknown URI answered like an undecodable payload.
ReqUnsupportedUri_answers(r) ==
  /\ rpc[r] = "request"
  /\ req[r].uri \notin KnownUris
  /\ resp' = [resp EXCEPT ![r] = "InternalError"]
  /\ rpc' = [rpc EXCEPT ![r] = "done"]
  /\ UNCHANGED <<configVars, haltVars, nreq, req, transactions, messages,
                 blocks, queue, lock, sumeragiVars, height, world_state_view,
                 last_round_time, intakeVars, driverVars, applierVars,
                 handlerVars, log>>

\* handle_request, the last arm: panic!("URI not supported").
ReqUnsupportedUri(r) ==
  /\ rpc[r] = "request"
  /\ req[r].uri \notin KnownUris
  /\ rpc' = [rpc EXCEPT ![r] = "panicked"]
  /\ UNCHANGED <<configVars, haltVars, nreq, req, resp, transactions, messages, blocks,
                 queue, lock, sumeragiVars, height, world_state_view,
                 last_round_time, intakeVars, driverVars, applierVars,
                 handlerVars, log>>

\* handle_request, the three Err(e) arms of try_from.
ReqDecodeFailure(r) ==
  /\ rpc[r] = "request"
  /\ req[r].uri \in KnownUris
  /\ req[r].payload = "garbage"
  /\ resp' = [resp EXCEPT ![r] = DecodeFailureResponse]
  /\ rpc' = [rpc EXCEPT ![r] = "done"]
  /\ UNCHANGED <<configVars, haltVars, nreq, req, transactions, messages, blocks, queue,
                 lock, sumeragiVars, height, world_state_view, last_round_time,
                 intakeVars, driverVars, applierVars, handlerVars, log>>

\* handle_request, an Ok arm: state.lock().await
ReqLockState(r) ==
  /\ rpc[r] = "request"
  /\ req[r].uri \in KnownUris
  /\ req[r].payload # "garbage"
  /\ Free("state")
  /\ lock' = Acquire(lock, "state", RequestTask(r))
  /\ rpc' = [rpc EXCEPT ![r] = "state"]
  /\ UNCHANGED <<configVars, haltVars, nreq, req, resp, transactions, messages, blocks,
                 queue, sumeragiVars, height, world_state_view, last_round_time,
                 intakeVars, driverVars, applierVars, handlerVars, log>>

\* The mutex the Ok arm locks next, through the ToriiState guard.
InnerMutex(u) ==
  CASE u = INSTRUCTIONS_URI -> "transaction_sender"
    [] u = QUERY_URI -> "world_state_view"
    [] OTHER -> "message_sender"

\* .transaction_sender.lock().await, .world_state_view.lock().await,
\* .message_sender.lock().await
ReqLockInner(r) ==
  /\ rpc[r] = "state"
  /\ Free(InnerMutex(req[r].uri))
  /\ lock' = Acquire(lock, InnerMutex(req[r].uri), RequestTask(r))
  /\ rpc' = [rpc EXCEPT ![r] = "inner"]
  /\ UNCHANGED <<configVars, haltVars, nreq, req, resp, transactions, messages, blocks,
                 queue, sumeragiVars, height, world_state_view, last_round_time,
                 intakeVars, driverVars, applierVars, handlerVars, log>>

\* Transaction::accept(): Err for a bad signature or a stale creation_time.
Accepts(p) == p = "good"

\* /instruction: start_send(transaction.accept().expect(..)).map_err(..)?
\* The expect panics when accept fails; `?` returns Err when the receiver is
\* gone, and handle_connection's expect("Failed to handle message.") panics
\* on it.  Either way the guards are dropped and nothing is answered.
ReqInstruction(r) ==
  /\ rpc[r] = "inner"
  /\ req[r].uri = INSTRUCTIONS_URI
  /\ lock' = ReleaseAll(lock, RequestTask(r))
  /\ IF Accepts(req[r].payload) /\ ReceiverAlive
       THEN /\ transactions' = Append(transactions, r)
            /\ log' = [log EXCEPT !.sent = Append(@, r)]
            /\ resp' = [resp EXCEPT ![r] = "EmptyOk"]
            /\ rpc' = [rpc EXCEPT ![r] = "done"]
       ELSE /\ rpc' = [rpc EXCEPT ![r] = "panicked"]
            /\ UNCHANGED <<transactions, log, resp>>
  /\ UNCHANGED <<configVars, haltVars, nreq, req, messages, blocks, queue, sumeragiVars,
                 height, world_state_view, last_round_time, intakeVars,
                 driverVars, applierVars, handlerVars>>

\* What a query reads: the WorldStateView, and whether WorldStateView::put is
\* in the middle of a block at that moment.
Snapshot ==
  [wsv |-> world_state_view,
   partial |-> apc = "put" /\ aidx > 0 /\ aidx < ablock.ntx]

\* /query: request.query.execute(&*wsv guard), synchronous under both guards.
ReqQuery(r) ==
  /\ rpc[r] = "inner"
  /\ req[r].uri = QUERY_URI
  /\ lock' = ReleaseAll(lock, RequestTask(r))
  /\ log' = [log EXCEPT !.observed = Append(@, [id |-> r, saw |-> Snapshot])]
  /\ resp' = [resp EXCEPT ![r] = IF req[r].payload = "good" THEN "Ok"
                                                             ELSE "InternalError"]
  /\ rpc' = [rpc EXCEPT ![r] = "done"]
  /\ UNCHANGED <<configVars, haltVars, nreq, req, transactions, messages, blocks, queue,
                 sumeragiVars, height, world_state_view, last_round_time,
                 intakeVars, driverVars, applierVars, handlerVars>>

\* /block: start_send(message).map_err(..)?
ReqBlock(r) ==
  /\ rpc[r] = "inner"
  /\ req[r].uri = BLOCKS_URI
  /\ lock' = ReleaseAll(lock, RequestTask(r))
  /\ IF ReceiverAlive
       THEN /\ messages' = Append(messages, [id |-> r, kind |-> req[r].payload])
            /\ log' = [log EXCEPT !.pushed = Append(@, r)]
            /\ resp' = [resp EXCEPT ![r] = "EmptyOk"]
            /\ rpc' = [rpc EXCEPT ![r] = "done"]
       ELSE /\ rpc' = [rpc EXCEPT ![r] = "panicked"]
            /\ UNCHANGED <<messages, resp, log>>
  /\ UNCHANGED <<configVars, haltVars, nreq, req, transactions, blocks, queue,
                 sumeragiVars, height, world_state_view, last_round_time,
                 intakeVars, driverVars, applierVars, handlerVars>>

ToriiNext ==
  \E r \in Requests :
    \/ Connect(r)
    \/ ReqUnsupportedUri(r)
    \/ ReqDecodeFailure(r)
    \/ ReqLockState(r)
    \/ ReqLockInner(r)
    \/ ReqInstruction(r)
    \/ ReqQuery(r)
    \/ ReqBlock(r)

\* The tasks Iroha::start spawns exist only in a started node.
Running == deployment = "node"

\* ------------------------------------------------------------------ Queue
Range(q) == {q[i] : i \in 1..Len(q)}

\* Configuration: queue_max_len.  Queue::default() is built without it.
queue_max_len == 1

\* Queue::push_pending_transaction: appends; the Queue holds a transaction
\* (by hash) at most once.
push_pending_transaction(q, tx) == IF tx \in Range(q) THEN q ELSE Append(q, tx)

\* Queue::pop_pending_transactions: everything buffered, in FIFO order.
pop_pending_transactions(q) == q

\* ----------------------------------------------------- transaction intake
\* while let Some(transaction) = transactions_receiver.lock().await.next().await
IntakeNext ==
  /\ Running
  /\ ipc = "next"
  /\ transactions # <<>>
  /\ itx' = Next_item(transactions)
  /\ transactions' = Tail(transactions)
  /\ ipc' = "push"
  /\ UNCHANGED <<configVars, haltVars, toriiVars, messages, blocks, queue, lock,
                 sumeragiVars, height, world_state_view, last_round_time,
                 driverVars, applierVars, handlerVars, log>>

\* next() returns None once the sender is closed and the buffer is empty:
\* the `while let` ends, the receiver's guard is dropped, the task is over.
IntakeExit ==
  /\ Running
  /\ ipc = "next"
  /\ transactions = <<>>
  /\ shutdown
  /\ ipc' = "exited"
  /\ lock' = Release(lock, "transactions_receiver")
  /\ UNCHANGED <<configVars, haltVars, toriiVars, transactions, messages,
                 blocks, queue, sumeragiVars, height, world_state_view,
                 last_round_time, itx, driverVars, applierVars, handlerVars,
                 log>>

\* A loop body that forgets the push.
IntakePush_forgets ==
  /\ ipc = "push"
  /\ ipc' = "next"
  /\ UNCHANGED <<configVars, haltVars, toriiVars, transactions, messages, blocks, queue,
                 lock, sumeragiVars, height, world_state_view, last_round_time,
                 itx, driverVars, applierVars, handlerVars, log>>

\* queue.lock().await.push_pending_transaction(transaction);
IntakePush ==
  /\ ipc = "push"
  /\ Free("queue")
  /\ queue' = push_pending_transaction(queue, itx)
  /\ log' = [log EXCEPT !.queued = Append(@, itx)]
  /\ ipc' = "next"
  /\ UNCHANGED <<configVars, haltVars, toriiVars, transactions, messages, blocks, lock,
                 sumeragiVars, height, world_state_view, last_round_time, itx,
                 driverVars, applierVars, handlerVars>>

\* ---------------------------------------------------------- block applier
\* while let Some(block) = blocks_receiver.lock().await.next().await
ApplierNext ==
  /\ Running
  /\ apc = "next"
  /\ blocks # <<>>
  /\ ablock' = Next_item(blocks)
  /\ blocks' = Tail(blocks)
  /\ apc' = "lock"
  /\ UNCHANGED <<configVars, haltVars, toriiVars, transactions, messages, queue, lock,
                 sumeragiVars, height, world_state_view, last_round_time,
                 intakeVars, driverVars, aidx, handlerVars, log>>

ApplierExit ==
  /\ Running
  /\ apc = "next"
  /\ blocks = <<>>
  /\ shutdown
  /\ apc' = "exited"
  /\ lock' = Release(lock, "blocks_receiver")
  /\ UNCHANGED <<configVars, haltVars, toriiVars, transactions, messages,
                 blocks, queue, sumeragiVars, height, world_state_view,
                 last_round_time, intakeVars, driverVars, ablock, aidx,
                 handlerVars, log>>

\* world_state_view.lock().await, then put(&block) begins.
ApplierLock ==
  /\ apc = "lock"
  /\ Free("world_state_view")
  /\ lock' = Acquire(lock, "world_state_view", Applier)
  /\ log' = [log EXCEPT !.put = Append(@, ablock.height)]
  /\ aidx' = 0
  /\ apc' = "put"
  /\ UNCHANGED <<configVars, haltVars, toriiVars, transactions, messages, blocks, queue,
                 sumeragiVars, height, world_state_view, last_round_time,
                 intakeVars, driverVars, ablock, handlerVars>>

\* The guard dropped before put runs: `let wsv = lock().await; drop(wsv)`.
PutHoldsGuard_dropped(b, i) == FALSE

\* put(&block).await runs under the guard taken in the same statement: the
\* applier still holds it while transactions of the block remain.
PutHoldsGuard(b, i) == i < b.ntx

\* WorldStateView::put: one transaction of the block after another; the
\* guard is dropped at the end of the statement, when put has returned.
ApplierPut ==
  /\ apc = "put"
  /\ aidx < ablock.ntx
  /\ aidx' = aidx + 1
  /\ world_state_view' =
       [blocks |-> world_state_view.blocks + (IF aidx' = ablock.ntx THEN 1 ELSE 0),
        txs |-> world_state_view.txs + 1]
  /\ lock' = IF PutHoldsGuard(ablock, aidx')
               THEN lock
               ELSE [lock EXCEPT !["world_state_view"] =
                       IF @ = Applier THEN None ELSE @]
  /\ apc' = IF aidx' = ablock.ntx THEN "next" ELSE "put"
  /\ UNCHANGED <<configVars, haltVars, toriiVars, transactions, messages, blocks, queue,
                 sumeragiVars, height, last_round_time, intakeVars, driverVars,
                 ablock, handlerVars, log>>

\* --------------------------------------------------------------- Sumeragi
\* Sumeragi::has_pending_block
has_pending_block == pending_block

\* A task that reaches Sumeragi without waiting for its mutex.
SumeragiGuard_nowait == TRUE

\* sumeragi.lock().await: the driver and the handler reach Sumeragi only
\* through the guard of its mutex.
SumeragiGuard == Free("sumeragi")

\* Kura::store(block): append, emit on the block channel.
KuraStore(n) == Append(blocks, Block(height, n))

\* ... which takes an open block channel; on a closed one store returns Err.
KuraCanEmit == ~shutdown

\* Sumeragi::handle_message accepts a BlockCreated as a validating peer or
\* the proxy tail of the round, when no block is in discussion yet.
AcceptsCreated == peers = "network" /\ role \in {"ValidatingPeer", "ProxyTail"}
                  /\ ~pending_block

\* ... a BlockSigned as the proxy tail that holds the block.
AcceptsSigned == peers = "network" /\ role = "ProxyTail" /\ pending_block

\* ... a BlockCommitted in every role.
AcceptsCommitted == peers = "network"

\* ----------------------------------------------------------- round driver
\* A guard bound to a name outlives the condition:
\* `let s = sumeragi.lock().await; if !s.has_pending_block() { .. }`.
CheckGuardDropped_kept == FALSE

\* The guard of lib.rs:141 is a temporary of the `if` condition: it is
\* dropped when the condition has been evaluated, before the body runs.
CheckGuardDropped == TRUE

\* if !sumeragi.lock().await.has_pending_block(): the lock is acquired ...
DriverCheck ==
  /\ Running
  /\ dpc = "check"
  /\ SumeragiGuard
  /\ lock' = Acquire(lock, "sumeragi", Driver)
  /\ dpc' = "checked"
  /\ UNCHANGED <<configVars, haltVars, toriiVars, transactions, messages,
                 blocks, queue, sumeragiVars, height, world_state_view,
                 last_round_time, intakeVars, batch, didx, applierVars,
                 handlerVars, log>>

\* ... and the condition decides: with a pending block the iteration is over
\* and the loop starts again.
DriverChecked ==
  /\ dpc = "checked"
  /\ lock' = IF CheckGuardDropped THEN Release(lock, "sumeragi") ELSE lock
  /\ dpc' = IF has_pending_block THEN "check" ELSE "pop"
  /\ UNCHANGED <<configVars, haltVars, toriiVars, transactions, messages,
                 blocks, queue, sumeragiVars, height, world_state_view,
                 last_round_time, intakeVars, batch, didx, applierVars,
                 handlerVars, log>>

\* A driver that stamps last_round_time outside `if !transactions.is_empty()`.
DriverPop_stamps ==
  /\ dpc = "pop"
  /\ Free("queue")
  /\ batch' = pop_pending_transactions(queue)
  /\ queue' = <<>>
  /\ dpc' = IF batch' = <<>> THEN "check" ELSE "lock"
  /\ last_round_time' = last_round_time + 1
  /\ UNCHANGED <<configVars, haltVars, toriiVars, transactions, messages,
                 blocks, lock, sumeragiVars, height, world_state_view,
                 intakeVars, didx, applierVars, handlerVars, log>>

\* let transactions = queue.lock().await.pop_pending_transactions();
\* if !transactions.is_empty()
DriverPop ==
  /\ dpc = "pop"
  /\ Free("queue")
  /\ batch' = pop_pending_transactions(queue)
  /\ queue' = <<>>
  /\ dpc' = IF batch' = <<>> THEN "check" ELSE "lock"
  /\ UNCHANGED <<configVars, haltVars, toriiVars, transactions, messages, blocks, lock,
                 sumeragiVars, height, world_state_view, last_round_time,
                 intakeVars, didx, applierVars, handlerVars, log>>

\* A driver that proposes whatever its role.
TakesProposePath_any(r) == TRUE

\* if let Role::Leader = sumeragi.role()
TakesProposePath(r) == r = "Leader"

\* let mut sumeragi = sumeragi.lock().await; then the role decides the path.
\* validate_and_store is entered with the whole batch.
DriverLock ==
  /\ dpc = "lock"
  /\ SumeragiGuard
  /\ lock' = Acquire(lock, "sumeragi", Driver)
  /\ IF TakesProposePath(role)
       THEN /\ dpc' = "propose"
            /\ log' = [log EXCEPT !.proposed = Append(@, batch)]
       ELSE /\ dpc' = "forward"
            /\ UNCHANGED log
  /\ UNCHANGED <<configVars, haltVars, toriiVars, transactions, messages, blocks, queue,
                 sumeragiVars, height, world_state_view, last_round_time,
                 intakeVars, batch, didx, applierVars, handlerVars>>

\* validate_and_store(transactions, world_state_view.clone()): the dry run
\* needs the WorldStateView, which it reaches through its mutex.
DriverValidate ==
  /\ dpc = "propose"
  /\ Free("world_state_view")
  /\ lock' = Acquire(lock, "world_state_view", Driver)
  /\ dpc' = "validate"
  /\ UNCHANGED <<configVars, haltVars, toriiVars, transactions, messages, blocks, queue,
                 sumeragiVars, height, world_state_view, last_round_time,
                 intakeVars, batch, didx, applierVars, handlerVars, log>>

\* validate_and_store among peers: sign, broadcast BlockCreated, keep the
\* block as the pending block.
DriverBroadcast ==
  /\ dpc = "validate"
  /\ peers = "network"
  /\ lock' = Release(lock, "world_state_view")
  /\ pending_block' = TRUE
  /\ dpc' = "stamp"
  /\ UNCHANGED <<configVars, haltVars, toriiVars, transactions, messages, blocks, queue,
                 role, height, world_state_view, last_round_time, intakeVars,
                 batch, didx, applierVars, handlerVars, log>>

\* validate_and_store as the only peer: the block is committed at once; the
\* store is reached through Kura's mutex.
DriverKura ==
  /\ dpc = "validate"
  /\ peers = "solo"
  /\ Free("kura")
  /\ lock' = Acquire(Release(lock, "world_state_view"), "kura", Driver)
  /\ dpc' = "store"
  /\ UNCHANGED <<configVars, haltVars, toriiVars, transactions, messages, blocks, queue,
                 sumeragiVars, height, world_state_view, last_round_time,
                 intakeVars, batch, didx, applierVars, handlerVars, log>>

DriverStore ==
  /\ dpc = "store"
  /\ KuraCanEmit
  /\ blocks' = KuraStore(Len(batch))
  /\ log' = [log EXCEPT !.emitted = Append(@, Block(height, Len(batch)))]
  /\ height' = height + 1
  /\ lock' = Release(lock, "kura")
  /\ dpc' = "stamp"
  /\ UNCHANGED <<configVars, haltVars, toriiVars, transactions, messages, queue,
                 sumeragiVars, world_state_view, last_round_time, intakeVars,
                 batch, didx, applierVars, handlerVars>>

\* validate_and_store returns Err (signing, storage): the driver's
\* .expect("Failed to accept transactions into blockchain.") panics; the
\* unwinding drops the driver's guards and the task is gone.
DriverProposeFails ==
  /\ dpc \in {"validate", "store"}
  /\ lock' = ReleaseAll(lock, Driver)
  /\ dpc' = "panicked"
  /\ UNCHANGED <<configVars, haltVars, toriiVars, transactions, messages, blocks, queue,
                 sumeragiVars, height, world_state_view, last_round_time,
                 intakeVars, batch, didx, applierVars, handlerVars, log>>

\* A loop that skips the first transaction of the batch.
ForwardedBatch_skip(b) == SubSeq(b, 2, Len(b))

\* The transactions the non-leader branch sends to sumeragi.leader().
ForwardedBatch(b) == b

\* for transaction in &transactions { send_futures.push(..) }; join_all:
\* one Network::send_request_to per transaction, its result ignored.
DriverSend ==
  /\ dpc = "forward"
  /\ didx < Len(ForwardedBatch(batch))
  /\ \E ok \in BOOLEAN :
       log' = [log EXCEPT !.forwarded =
                 Append(@, [tx |-> ForwardedBatch(batch)[didx + 1], ok |-> ok])]
  /\ didx' = didx + 1
  /\ UNCHANGED <<configVars, haltVars, toriiVars, transactions, messages, blocks, queue,
                 lock, sumeragiVars, height, world_state_view, last_round_time,
                 intakeVars, dpc, batch, applierVars, handlerVars>>

DriverJoined ==
  /\ dpc = "forward"
  /\ didx = Len(ForwardedBatch(batch))
  /\ dpc' = "stamp"
  /\ UNCHANGED <<configVars, haltVars, toriiVars, transactions, messages, blocks, queue,
                 lock, sumeragiVars, height, world_state_view, last_round_time,
                 intakeVars, batch, didx, applierVars, handlerVars, log>>

\* *last_round_time.lock().await = Instant::now(); the Sumeragi guard is
\* dropped at the end of the block.
DriverStamp ==
  /\ dpc = "stamp"
  /\ Free("last_round_time")
  /\ last_round_time' = last_round_time + 1
  /\ lock' = ReleaseAll(lock, Driver)
  /\ dpc' = "check"
  /\ batch' = <<>>
  /\ didx' = 0
  /\ UNCHANGED <<configVars, haltVars, toriiVars, transactions, messages, blocks, queue,
                 sumeragiVars, height, world_state_view, intakeVars,
                 applierVars, handlerVars, log>>

DriverNext ==
  \/ DriverCheck
  \/ DriverChecked
  \/ DriverPop
  \/ DriverLock
  \/ DriverValidate
  \/ DriverBroadcast
  \/ DriverKura
  \/ DriverStore
  \/ DriverProposeFails
  \/ DriverSend
  \/ DriverJoined
  \/ DriverStamp

\* --------------------------------------------------- peer message handler
\* A receiver that hands out a message and keeps it buffered.
HandlerNext_keeps ==
  /\ Running
  /\ hpc = "next"
  /\ messages # <<>>
  /\ hmsg' = Next_item(messages)
  /\ hpc' = "lock"
  /\ UNCHANGED <<configVars, haltVars, toriiVars, transactions, messages,
                 blocks, queue, lock, sumeragiVars, height, world_state_view,
                 last_round_time, intakeVars, driverVars, applierVars, log>>

\* while let Some(message) = message_receiver.lock().await.next().await
HandlerNext ==
  /\ Running
  /\ hpc = "next"
  /\ messages # <<>>
  /\ hmsg' = Next_item(messages)
  /\ messages' = Tail(messages)
  /\ hpc' = "lock"
  /\ UNCHANGED <<configVars, haltVars, toriiVars, transactions, blocks, queue, lock,
                 sumeragiVars, height, world_state_view, last_round_time,
                 intakeVars, driverVars, applierVars, log>>

HandlerExit ==
  /\ Running
  /\ hpc = "next"
  /\ messages = <<>>
  /\ shutdown
  /\ hpc' = "exited"
  /\ lock' = Release(lock, "message_receiver")
  /\ UNCHANGED <<configVars, haltVars, toriiVars, transactions, messages,
                 blocks, queue, sumeragiVars, height, world_state_view,
                 last_round_time, intakeVars, driverVars, applierVars, hmsg,
                 log>>

\* sumeragi.lock().await, then handle_message(message) begins.
HandlerLock ==
  /\ hpc = "lock"
  /\ SumeragiGuard
  /\ lock' = Acquire(lock, "sumeragi", Handler)
  /\ hpc' = "handle"
  /\ UNCHANGED <<configVars, haltVars, toriiVars, transactions, messages, blocks, queue,
                 sumeragiVars, height, world_state_view, last_round_time,
                 intakeVars, driverVars, applierVars, hmsg, log>>

Handled(ok) == [log EXCEPT !.handled = Append(@, [id |-> hmsg.id, ok |-> ok])]

\* An Err that ends the loop: `handle_message(message).await?`.
HandlerRejects_stops ==
  /\ hpc = "handle"
  /\ lock' = ReleaseAll(lock, Handler)
  /\ log' = Handled(FALSE)
  /\ hpc' = "exited"
  /\ UNCHANGED <<configVars, haltVars, toriiVars, transactions, messages,
                 blocks, queue, sumeragiVars, height, world_state_view,
                 last_round_time, intakeVars, driverVars, applierVars, hmsg>>

\* handle_message returns Err (wrong role, bad signature, chain mismatch):
\* `let _result` drops it, the guard is released, the loop goes on.
HandlerRejects ==
  /\ hpc = "handle"
  /\ lock' = Release(lock, "sumeragi")
  /\ log' = Handled(FALSE)
  /\ hpc' = "next"
  /\ UNCHANGED <<configVars, haltVars, toriiVars, transactions, messages, blocks, queue,
                 sumeragiVars, height, world_state_view, last_round_time,
                 intakeVars, driverVars, applierVars, hmsg>>

\* BlockCreated: sign, send BlockSigned, keep the block as pending block.
HandlerCreated ==
  /\ hpc = "handle"
  /\ hmsg.kind = "Created"
  /\ AcceptsCreated
  /\ pending_block' = TRUE
  /\ lock' = Release(lock, "sumeragi")
  /\ log' = Handled(TRUE)
  /\ hpc' = "next"
  /\ UNCHANGED <<configVars, haltVars, toriiVars, transactions, messages, blocks, queue,
                 role, height, world_state_view, last_round_time, intakeVars,
                 driverVars, applierVars, hmsg>>

\* BlockSigned: the proxy tail collects the signature.
HandlerSigned ==
  /\ hpc = "handle"
  /\ hmsg.kind = "Signed"
  /\ AcceptsSigned
  /\ lock' = Release(lock, "sumeragi")
  /\ log' = Handled(TRUE)
  /\ hpc' = "next"
  /\ UNCHANGED <<configVars, haltVars, toriiVars, transactions, messages, blocks, queue,
                 sumeragiVars, height, world_state_view, last_round_time,
                 intakeVars, driverVars, applierVars, hmsg>>

\* BlockCommitted: the block is handed to Kura, through Kura's mutex.
HandlerKura ==
  /\ hpc = "handle"
  /\ hmsg.kind = "Committed"
  /\ AcceptsCommitted
  /\ Free("kura")
  /\ lock' = Acquire(lock, "kura", Handler)
  /\ hpc' = "store"
  /\ UNCHANGED <<configVars, haltVars, toriiVars, transactions, messages, blocks, queue,
                 sumeragiVars, height, world_state_view, last_round_time,
                 intakeVars, driverVars, applierVars, hmsg, log>>

\* ... stored and emitted; the pending block is cleared, the height advances,
\* the roles rotate (by hash of key and previous block: any role may result).
HandlerCommitted ==
  /\ hpc = "store"
  /\ KuraCanEmit
  /\ blocks' = KuraStore(MaxBlockTx)
  /\ height' = height + 1
  /\ pending_block' = FALSE
  /\ role' \in Roles
  /\ lock' = Release(Release(lock, "kura"), "sumeragi")
  /\ log' = [Handled(TRUE) EXCEPT
               !.emitted = Append(@, Block(height, MaxBlockTx))]
  /\ hpc' = "next"
  /\ UNCHANGED <<configVars, haltVars, toriiVars, transactions, messages, queue,
                 world_state_view, last_round_time, intakeVars, driverVars,
                 applierVars, hmsg>>

\* ... or the store fails: handle_message returns Err, nothing changes.
HandlerStoreFails ==
  /\ hpc = "store"
  /\ lock' = Release(Release(lock, "kura"), "sumeragi")
  /\ log' = Handled(FALSE)
  /\ hpc' = "next"
  /\ UNCHANGED <<configVars, haltVars, toriiVars, transactions, messages, blocks, queue,
                 sumeragiVars, height, world_state_view, last_round_time,
                 intakeVars, driverVars, applierVars, hmsg>>

HandlerStep ==
  \/ HandlerNext
  \/ HandlerExit
  \/ HandlerLock
  \/ HandlerRejects
  \/ HandlerCreated
  \/ HandlerSigned
  \/ HandlerKura
  \/ HandlerCommitted
  \/ HandlerStoreFails

IntakeStep == IntakeNext \/ IntakePush \/ IntakeExit

ApplierStep == ApplierNext \/ ApplierLock \/ ApplierPut \/ ApplierExit

\* Cancellation: the node closes every channel sender (Torii's two and
\* Kura's) once no request is in flight.  Nothing in Iroha::start does it;
\* it is the event the tasks are supposed to react to.
Shutdown ==
  /\ Running
  /\ ~shutdown
  /\ \A r \in Requests : rpc[r] \in {"idle", "done", "panicked"}
  /\ shutdown' = TRUE
  /\ UNCHANGED <<configVars, view, toriiVars, transactions, messages, blocks,
                 queue, lock, sumeragiVars, height, world_state_view,
                 last_round_time, intakeVars, driverVars, applierVars,
                 handlerVars, log>>

Next ==
  \/ ToriiNext
  \/ IntakeStep
  \/ DriverNext
  \/ ApplierStep
  \/ HandlerStep
  \/ Shutdown

Spec == Init /\ [][Next]_vars

\* Scheduling: the pool runs a spawned task that can take a step.
FairSpec == Spec /\ WF_vars(IntakeStep)

\* The steps of the request tasks (everything of Torii but the accept).
RequestStep ==
  \E r \in Requests :
    \/ ReqUnsupportedUri(r)
    \/ ReqDecodeFailure(r)
    \/ ReqLockState(r)
    \/ ReqLockInner(r)
    \/ ReqInstruction(r)
    \/ ReqQuery(r)
    \/ ReqBlock(r)

\* Fair scheduling of every spawned task: the pool runs a task that can take
\* a step (weak fairness), and the handler, woken each time the Sumeragi
\* mutex is released, gets it if it is released again and again (strong
\* fairness: the mutex has no queue, and the driver takes it on every turn).
LiveSpec ==
  /\ Spec
  /\ WF_vars(RequestStep)
  /\ WF_vars(IntakeStep)
  /\ WF_vars(DriverNext)
  /\ WF_vars(ApplierStep)
  /\ WF_vars(HandlerStep)
  /\ SF_vars(HandlerLock)

\* ================================================================= claims
Terminal(r) == rpc[r] \in {"done", "panicked"}

\* C1: the round driver never enters the propose path (validate_and_store)
\* while Sumeragi has a pending block, whatever the peer message handler
\* did between the driver's has_pending_block check and its second lock.
C1_NoProposeWhilePending == dpc = "propose" => ~has_pending_block

\* The handler set the pending block after the driver's check; the driver
\* has locked Sumeragi again and is on the forwarding path.
C1_Witness == dpc = "forward" /\ has_pending_block /\ batch # <<>>

Heights(s) == [i \in 1..Len(s) |-> s[i].height]

\* C2: put is called once per emitted block, in emission order: the heights
\* put so far, the block in the applier's hand and the blocks still on the
\* channel are exactly the emitted blocks, and the heights put increase.
C2_AppliedInEmissionOrder ==
  /\ log.put \o (IF apc = "lock" THEN <<ablock.height>> ELSE <<>>)
       \o Heights(blocks) = Heights(log.emitted)
  /\ \A i, j \in 1..Len(log.put) : i < j => log.put[i] < log.put[j]

\* The replayed store and two later blocks, all applied.
C2_Witness ==
  /\ Len(log.put) = MaxStored + MaxRequests
  /\ world_state_view.blocks = Len(log.put)

DriverInSumeragi ==
  dpc \in {"checked", "propose", "validate", "store", "forward", "stamp"}
HandlerInSumeragi == hpc \in {"handle", "store"}

\* C3: the driver's role check, propose and forwarding batch and the
\* handler's handle_message never overlap, and each runs under the guard.
C3_SumeragiExclusive ==
  /\ ~(DriverInSumeragi /\ HandlerInSumeragi)
  /\ DriverInSumeragi => lock["sumeragi"] = Driver
  /\ HandlerInSumeragi => lock["sumeragi"] = Handler

\* The handler has a message in hand and waits while the driver forwards.
C3_Witness == hpc = "lock" /\ dpc = "forward" /\ didx > 0

DecodeFails(r) ==
  /\ rpc[r] = "request"
  /\ req[r].uri \in KnownUris
  /\ req[r].payload = "garbage"
  /\ rpc'[r] # "request"

\* C4: the step that handles an undecodable payload of a known URI answers
\* InternalError, ends the task normally, and leaves both channels and the
\* WorldStateView as they were; such a request is never on a channel.
C4_DecodeFailureIsInternalError ==
  /\ [][\A r \in Requests :
          DecodeFails(r) =>
            /\ resp'[r] = "InternalError"
            /\ rpc'[r] = "done"
            /\ UNCHANGED <<transactions, messages, world_state_view>>]_vars
  /\ [](\A r \in Requests :
          (req[r].payload = "garbage" /\ Terminal(r) /\ req[r].uri \in KnownUris)
            => /\ resp[r] = "InternalError"
               /\ r \notin Range(log.sent)
               /\ \A i \in 1..Len(messages) : messages[i].id # r)

\* An undecodable request was answered and a later request was served.
C4_Witness ==
  \E r, q \in Requests :
    /\ r < q
    /\ req[r].uri \in KnownUris /\ req[r].payload = "garbage"
    /\ resp[r] = "InternalError"
    /\ rpc[q] = "done" /\ resp[q] \in {"Ok", "EmptyOk"}

\* C5: a decodable transaction that fails accept() is answered with an
\* error response, is not pushed, and its task ends without a panic.
C5_RejectedWithErrorResponse ==
  \A r \in Requests :
    (req[r].uri = INSTRUCTIONS_URI /\ req[r].payload = "bad" /\ Terminal(r))
      => /\ rpc[r] = "done"
         /\ resp[r] = "InternalError"
         /\ r \notin Range(log.sent)

\* C6: every request with a known URI ends with one response out of
\* Ok(bytes), EmptyOk, InternalError and without a panic, also when the
\* receiving end of its channel is gone.  (Stated for the requests that pass
\* acceptance; the others are C5's.)
C6_OneResponsePerRequest ==
  \A r \in Requests :
    (/\ req[r].uri \in KnownUris
     /\ ~(req[r].uri = INSTRUCTIONS_URI /\ req[r].payload = "bad")
     /\ Terminal(r))
      => /\ rpc[r] = "done"
         /\ resp[r] \in {"Ok", "EmptyOk", "InternalError"}

\* C7: no query reads a WorldStateView in which put has applied some but not
\* all transactions of a block, and the step that evaluates a query leaves
\* the WorldStateView and both channels as they were.
C7_QuerySeesWholeBlocks ==
  /\ [](\A i \in 1..Len(log.observed) : ~log.observed[i].saw.partial)
  /\ [][\A r \in Requests :
          (rpc[r] = "inner" /\ req[r].uri = QUERY_URI /\ rpc'[r] # "inner")
            => UNCHANGED <<world_state_view, transactions, messages>>]_vars

\* A query was evaluated after one block was applied and before another.
C7_Witness ==
  \E i \in 1..Len(log.observed) :
    /\ log.observed[i].saw.wsv.blocks >= 1
    /\ world_state_view.blocks > log.observed[i].saw.wsv.blocks

\* C8: what the intake task has appended to the Queue, the transaction in its
\* hand and the channel's content are, in this order, exactly what Torii
\* pushed; each push of the intake appends at the Queue's tail; and every
\* transaction pushed onto the channel is eventually appended.
C8_IntakeDeliversInOrder ==
  /\ [](log.queued \o (IF ipc = "push" THEN <<itx>> ELSE <<>>) \o transactions
          = log.sent)
  /\ [][(ipc = "push" /\ ipc' = "next") => queue' = Append(queue, itx)]_vars
  /\ \A r \in Requests :
       (r \in Range(log.sent)) ~> (r \in Range(log.queued))

\* Two transactions were pushed and both were appended, in that order.
C8_Witness == Len(log.sent) = 2 /\ log.queued = log.sent

\* C9: when the driver has finished a drained batch, the batch is non-empty
\* and none of it is in the Queue; as Leader the batch was proposed once, as
\* a whole, and none of it was sent; otherwise each of its transactions was
\* sent exactly once and none of it was proposed.
C9_BatchHandledByOnePath ==
  dpc = "stamp" =>
    LET sends(tx) == {i \in 1..Len(log.forwarded) : log.forwarded[i].tx = tx}
        proposals == {i \in 1..Len(log.proposed) : log.proposed[i] = batch}
        touched == {i \in 1..Len(log.proposed) :
                      Range(log.proposed[i]) \cap Range(batch) # {}}
    IN /\ batch # <<>>
       /\ Range(batch) \cap Range(queue) = {}
       /\ IF role = "Leader"
            THEN /\ Cardinality(proposals) = 1
                 /\ touched = proposals
                 /\ \A tx \in Range(batch) : sends(tx) = {}
            ELSE /\ touched = {}
                 /\ \A tx \in Range(batch) : Cardinality(sends(tx)) = 1

\* A batch of two was forwarded by a non-leader, and a send failed.
C9_Witness ==
  /\ dpc = "stamp"
  /\ role # "Leader"
  /\ Len(batch) = 2
  /\ \E i \in 1..Len(log.forwarded) : ~log.forwarded[i].ok

Tasks ==
  {Listener, Intake, Driver, Applier, Handler} \cup {RequestTask(r) : r \in Requests}

\* C10: no task holds two of the component mutexes (Torii, Queue, Sumeragi,
\* Kura, WorldStateView) at once.  The mutex of ToriiState, which a request
\* handler holds around the WorldStateView mutex, is not counted here.
C10_OneComponentMutexAtATime ==
  \A t \in Tasks : Cardinality(Held(t) \cap ComponentMutexes) <= 1

\* C11: once shutdown has closed the senders, each of the four loops of
\* start() ends only with its channel empty, and all four eventually end.
C11_TasksDrainAndExit ==
  /\ [](ipc = "exited" => transactions = <<>>)
  /\ [](apc = "exited" => blocks = <<>>)
  /\ [](hpc = "exited" => messages = <<>>)
  /\ shutdown ~>
       (ipc = "exited" /\ dpc = "exited" /\ apc = "exited" /\ hpc = "exited")

\* C12: a node that holds a pending block either processes a commit (which
\* clears it) or eventually triggers a view change, as long as it runs.
\* Time is abstracted: the timeout expires in a behaviour where the pending
\* block stays for ever.
C12_PendingBlockTimesOut ==
  (pending_block /\ ~shutdown) ~> (~pending_block \/ view > 0 \/ shutdown)

\* C13: the Queue never holds more than queue_max_len transactions, and an
\* /instruction request handled while the Queue holds queue_max_len is
\* answered QueueFull, not EmptyOk.
C13_QueueFullSignalled ==
  /\ [](Len(queue) <= queue_max_len)
  /\ [][\A r \in Requests :
          (/\ rpc[r] = "inner"
           /\ req[r].uri = INSTRUCTIONS_URI
           /\ rpc'[r] = "done"
           /\ Len(queue) >= queue_max_len)
            => resp'[r] = "QueueFull"]_vars

\* C14: the step that handles a request with an unknown URI ends its task
\* in a panic and leaves the responses, both channels and the WorldStateView
\* as they were; such a request is never answered and never on a channel.
C14_UnknownUriIsFatal ==
  /\ [][\A r \in Requests :
          (rpc[r] = "request" /\ req[r].uri \notin KnownUris
             /\ rpc'[r] # "request")
            => /\ rpc'[r] = "panicked"
               /\ UNCHANGED <<resp, transactions, messages, world_state_view>>]_vars
  /\ [](\A r \in Requests :
          (rpc[r] # "idle" /\ req[r].uri \notin KnownUris)
            => /\ rpc[r] \in {"request", "panicked"}
               /\ resp[r] = "none"
               /\ r \notin Range(log.sent)
               /\ \A i \in 1..Len(messages) : messages[i].id # r)

\* A request with an unknown URI has panicked; a later request was served.
C14_Witness ==
  \E r, q \in Requests :
    /\ r < q
    /\ req[r].uri \notin KnownUris /\ rpc[r] = "panicked"
    /\ rpc[q] = "done" /\ resp[q] \in {"Ok", "EmptyOk"}

Ids(s) == [i \in 1..Len(s) |-> s[i].id]

HandlerInHand == IF hpc \in {"lock", "handle", "store"} THEN <<hmsg.id>> ELSE <<>>

C16_RejectedMessageAloneDropped ==
  /\ [][(/\ Len(log'.handled) = Len(log.handled) + 1
          /\ ~log'.handled[Len(log'.handled)].ok)
           => /\ hpc' = "next"
              /\ lock'["message_receiver"] = Handler
              /\ lock'["sumeragi"] = None
              /\ UNCHANGED <<messages, sumeragiVars, height, blocks>>]_vars
  /\ [](hpc = "exited" => (shutdown /\ messages = <<>>))

\* A message was rejected and a later one was handled successfully.
C16_Witness ==
  \E i, j \in 1..Len(log.handled) :
    i < j /\ ~log.handled[i].ok /\ log.handled[j].ok

\* C17: a failure of validate_and_store aborts the round and nothing else:
\* the round driver never ends in a panic.
C17_ProposeFailureAbortsRound == dpc # "panicked"

\* The batch in the driver's hand has been proposed, or sent in full.
BatchDone ==
  \/ /\ log.proposed # <<>>
     /\ log.proposed[Len(log.proposed)] = batch
     /\ didx = 0
  \/ /\ didx = Len(batch)
     /\ \A i \in 1..Len(batch) :
          \E j \in 1..Len(log.forwarded) : log.forwarded[j].tx = batch[i]

\* C18: last_round_time changes only in the driver's last step of a turn
\* that drained a non-empty batch and has proposed or forwarded it; a turn
\* that finds a pending block or an empty Queue leaves last_round_time, the
\* Queue and Sumeragi's state as they were.
C18_StampOnlyAfterBatch ==
  [][/\ (last_round_time' # last_round_time =>
            (/\ dpc = "stamp" /\ dpc' = "check"
             /\ lock["sumeragi"] = Driver
             /\ batch # <<>>
             /\ BatchDone))
      /\ ((dpc \in {"checked", "pop"} /\ dpc' = "check") =>
            UNCHANGED <<last_round_time, queue, sumeragiVars>>)]_vars

\* The driver has stamped one batch; its next turn finds the Queue empty.
C18_Witness ==
  /\ last_round_time = 1
  /\ dpc = "pop"
  /\ queue = <<>>
  /\ ~pending_block

\* The mutex a task is waiting for at its .lock().await, if it is at one.
WaitsFor(t) ==
  CASE t = Listener ->
         IF nreq < MaxRequests /\ ~shutdown THEN {"state"} ELSE {}
    [] t = Intake -> IF ipc = "push" THEN {"queue"} ELSE {}
    [] t = Driver ->
         CASE dpc \in {"check", "lock"} -> {"sumeragi"}
           [] dpc = "pop" -> {"queue"}
           [] dpc = "propose" -> {"world_state_view"}
           [] dpc = "validate" /\ peers = "solo" -> {"kura"}
           [] dpc = "stamp" -> {"last_round_time"}
           [] OTHER -> {}
    [] t = Applier -> IF apc = "lock" THEN {"world_state_view"} ELSE {}
    [] t = Handler ->
         CASE hpc = "lock" -> {"sumeragi"}
           [] hpc = "handle" /\ hmsg.kind = "Committed" /\ AcceptsCommitted
                -> {"kura"}
           [] OTHER -> {}
    [] OTHER ->
         LET r == t[2]
         IN CASE rpc[r] = "request" /\ req[r].uri \in KnownUris
                   /\ req[r].payload # "garbage" -> {"state"}
              [] rpc[r] = "state" -> {InnerMutex(req[r].uri)}
              [] OTHER -> {}

\* The tasks that hold a mutex t is waiting for.
BlockedBy(t) == {lock[m] : m \in WaitsFor(t)} \ {None}

RECURSIVE BlockedWithin(_, _)
\* The tasks t waits for through a chain of at most k waits.
BlockedWithin(t, k) ==
  IF k = 0 THEN {}
  ELSE BlockedBy(t) \cup UNION {BlockedWithin(u, k - 1) : u \in BlockedBy(t)}

\* C19: no task waits, through a chain of tasks each waiting for a mutex
\* the next one holds, for a mutex it holds itself.
C19_NoMutexCycle ==
  \A t \in Tasks : t \notin BlockedWithin(t, Cardinality(Tasks))

\* A chain of two waits: the handler waits for the Sumeragi mutex the driver
\* holds, and the driver waits for the WorldStateView mutex another task holds.
C19_Witness ==
  /\ BlockedBy(Handler) = {Driver}
  /\ BlockedBy(Driver) # {}
  /\ Driver \notin BlockedBy(Driver)

\* C20: no /query is evaluated on a WorldStateView that holds fewer blocks
\* than Kura::init replayed.
C20_QueriesSeeReplayedChain ==
  \A i \in 1..Len(log.observed) :
    log.observed[i].saw.wsv.blocks >= log.replayed

====
